---- MODULE Spec2Model ----
(***************************************************************************)
(* Component registry, composition builder, lookup, resolution and work    *)
(* context of component/core.py.                                           *)
(*                                                                         *)
(* A class object is named by a string: the classes written by addon       *)
(* authors (the declarations) carry their Python class name ("A1", "B2"),  *)
(* the classes generated by _build_component carry the component name      *)
(* ("a", "b").  The framework classes Component, AbstractComponent and     *)
(* object close every method resolution order in the same relative order   *)
(* and are left out of the sequences; AbstractComponent supplies the       *)
(* default of every attribute.                                             *)
(***************************************************************************)
EXTENDS Integers, Sequences, FiniteSets, Bags, TLC

VARIABLES
    registries,   \* registry id -> ComponentGlobalRegistry (ordered dict)
    last,         \* the last call made and what it returned or raised
    works,        \* the chain of WorkContext objects alive, oldest first
    loading,      \* the rebuild of all_components: running or not, classes left
    old,          \* all_components as it was when the rebuild started
    seen          \* what the last reader saw of all_components during the rebuild

vars == <<registries, last, works, loading, old, seen>>

None == "None"

\* ---------------------------------------------------------------- bounds
\* classes built into all_components
MaxBuilds == 4
\* classes built into the registry of the tests
MaxTestBuilds == 3
\* length of a chain of work contexts
MaxWorks == 3
\* rebuilds of all_components
MaxRebuilds == 1

\* ------------------------------------------------------------ input sets
RegIds == {"all_components", "test_registry"}

Collections == {"foo.bar.collection", "magento.backend"}

Models == {"res.users", "res.partner"}

Usages == {"speak", "yell", "sing"}

\* an attribute the class body does not assign / assigns
Unset == <<>>

Set(v) == <<v>>

\* the shapes of _apply_on and _inherit: None, one string, a list
NoneValue == [kind |-> "None", v |-> <<>>]

Str(s) == [kind |-> "basestring", v |-> <<s>>]

List(l) == [kind |-> "list", v |-> l]

\* class AbstractComponent: the class attributes every component inherits
AbstractComponent ==
    [name |-> None, inherit |-> NoneValue, collection |-> None,
     apply_on |-> NoneValue, usage |-> None, abstract |-> TRUE]

\* a class body that assigns nothing
Body ==
    [name |-> Unset, inherit |-> Unset, collection |-> Unset,
     apply_on |-> Unset, usage |-> Unset, abstract |-> Unset]

\* The component classes the addons declare (MetaComponent._modules_components).
Declarations ==
    [Base |-> [Body EXCEPT !.name = Set("base")],
     A1 |-> [Body EXCEPT !.name = Set("a"),
                         !.collection = Set("foo.bar.collection"),
                         !.apply_on = Set(Str("res.users")),
                         !.usage = Set("speak"),
                         !.abstract = Set(FALSE)],
     A2 |-> [Body EXCEPT !.inherit = Set(Str("a")),
                         !.apply_on = Set(List(<<"res.users", "res.partner">>))],
     A3 |-> [Body EXCEPT !.inherit = Set(List(<<"a">>)),
                         !.apply_on = Set(List(<<>>))],
     ADup |-> [Body EXCEPT !.name = Set("a"),
                           !.usage = Set("yell"),
                           !.abstract = Set(FALSE)],
     B1 |-> [Body EXCEPT !.name = Set("b"), !.inherit = Set(Str("a"))],
     B2 |-> [Body EXCEPT !.name = Set("b"), !.inherit = Set(List(<<"a", "b">>))],
     B3 |-> [Body EXCEPT !.inherit = Set(Str("b")), !.usage = Set("yell")],
     Base2 |-> [Body EXCEPT !.inherit = Set(Str("base"))],
     AB |-> [Body EXCEPT !.name = Set("c"), !.inherit = Set(List(<<"a", "b">>))],
     Orphan |-> [Body EXCEPT !.name = Set("c"),
                             !.inherit = Set(List(<<"a", "zz">>))],
     Twice |-> [Body EXCEPT !.name = Set("c"),
                            !.inherit = Set(List(<<"base", "a", "a">>)),
                            !.abstract = Set(FALSE)],
     NoName |-> [Body EXCEPT !.usage = Set("speak")],
     Vocalizer |-> [Body EXCEPT !.name = Set("vocalizer"),
                                !.inherit = Set(Str("base")),
                                !.usage = Set("yell"),
                                !.abstract = Set(FALSE)]]

DeclIds == DOMAIN Declarations

\* ------------------------------------------------------------- sequences
Range(s) == {s[i] : i \in 1..Len(s)}

Min(S) == CHOOSE x \in S : \A y \in S : x <= y

Without(s, x) ==
    LET keep(e) == e # x IN SelectSeq(s, keep)

\* odoo.tools.OrderedSet.add: a new element goes last, a known one stays
OrderedSetAdd(s, x) == IF x \in Range(s) THEN s ELSE Append(s, x)

\* odoo.tools.LastOrderedSet.add: the element is discarded, then added last
LastOrderedSetAdd(s, x) == Append(Without(s, x), x)

\* ------------------------------------------------ ComponentGlobalRegistry
\* An OrderedDict: the keys in insertion order, and the class under each key.
\* A generated class has its __bases__, the __mro__ Python derives from them
\* and keeps on the class, and its _inherit_children.
EmptyRegistry == [order |-> <<>>, cls |-> <<>>]

Has(reg, name) == name \in Range(reg.order)

\* SetItem moving a known key behind every other key
SetItemLast(reg, name, class) ==
    [order |-> Append(Without(reg.order, name), name),
     cls |-> (name :> class) @@ reg.cls]

\* OrderedDict.__setitem__: a new key goes last, a known key keeps its place
SetItem(reg, name, class) ==
    IF Has(reg, name)
    THEN [reg EXCEPT !.cls[name] = class]
    ELSE [order |-> Append(reg.order, name), cls |-> (name :> class) @@ reg.cls]

\* ------------------------------------------- method resolution order (C3)
Inconsistent == "<inconsistent mro>"

InTail(x, l) == \E i \in 2..Len(l) : l[i] = x

DropHead(l, x) == IF Len(l) > 0 /\ l[1] = x THEN Tail(l) ELSE l

NonEmpty(l) == Len(l) > 0

\* the merge of C3: the first head that is in no tail, again and again
RECURSIVE Merge(_)
Merge(lists) ==
    LET ls == SelectSeq(lists, NonEmpty)
        good == {i \in 1..Len(ls) : \A j \in 1..Len(ls) : ~InTail(ls[i][1], ls[j])}
    IN  IF Len(ls) = 0 THEN <<>>
        ELSE IF good = {} THEN <<Inconsistent>>
        ELSE LET h == ls[Min(good)][1]
             IN  <<h>> \o Merge([j \in 1..Len(ls) |-> DropHead(ls[j], h)])

\* the __mro__ of class x computed from the __bases__ of the classes cls
RECURSIVE ComputeMro(_, _)
ComputeMro(cls, x) ==
    IF x \in DOMAIN cls
    THEN LET b == cls[x].bases
         IN  <<x>> \o Merge([i \in 1..Len(b) |-> ComputeMro(cls, b[i])] \o <<b>>)
    ELSE <<x>>

\* the __mro__ kept on class x
Mro(cls, x) == IF x \in DOMAIN cls THEN cls[x].mro ELSE <<x>>

\* the __mro__ a new class with these bases gets
MroOfBases(cls, name, bases) ==
    <<name>> \o Merge([i \in 1..Len(bases) |-> Mro(cls, bases[i])] \o <<bases>>)

Consistent(m) == Inconsistent \notin Range(m)

\* class attribute lookup: the first class of the mro whose body assigns it
RECURSIVE FirstAssigned(_, _)
FirstAssigned(mro, attr) ==
    IF mro = <<>> THEN AbstractComponent[attr]
    ELSE IF Head(mro) \in DeclIds /\ Declarations[Head(mro)][attr] # Unset
         THEN Declarations[Head(mro)][attr][1]
         ELSE FirstAssigned(Tail(mro), attr)

GetAttr(reg, name, attr) == FirstAssigned(Mro(reg.cls, name), attr)

\* MetaComponent.apply_on_models
apply_on_models(reg, name) ==
    LET apply_on == GetAttr(reg, name, "apply_on")
    IN  IF apply_on.kind = "None" THEN NoneValue
        ELSE IF apply_on.kind = "basestring" THEN List(apply_on.v)
        ELSE apply_on

\* model_name in c.apply_on_models
AppliesTo(reg, name, model_name) ==
    model_name \in Range(apply_on_models(reg, name).v)

\* ------------------------------------------ ComponentGlobalRegistry.lookup
\* InCollection without the components that have no _collection
InCollectionOwnOnly(reg, collection_name) ==
    LET keep(c) == GetAttr(reg, c, "collection") = collection_name
                   /\ ~GetAttr(reg, c, "abstract")
    IN  SelectSeq(reg.order, keep)

InCollection(reg, collection_name) ==
    LET keep(c) == (GetAttr(reg, c, "collection") = collection_name
                    \/ GetAttr(reg, c, "collection") = None)
                   /\ ~GetAttr(reg, c, "abstract")
    IN  SelectSeq(reg.order, keep)

WithUsage(reg, collection_components, usage) ==
    LET keep(c) == GetAttr(reg, c, "usage") = usage
    IN  SelectSeq(collection_components, keep)

\* NarrowByUsage falling back on the whole collection for an unknown usage
NarrowByUsageOrAll(collection_components, components, usage) ==
    IF usage # None
    THEN (IF components # <<>> THEN components ELSE collection_components)
    ELSE collection_components

NarrowByUsage(collection_components, components, usage) ==
    IF usage # None
    THEN (IF components # <<>> THEN components ELSE <<>>)
    ELSE collection_components

lookup(reg, collection_name, usage, model_name) ==
    LET collection_components == InCollection(reg, collection_name)
        components == WithUsage(reg, collection_components, usage)
        candidates == NarrowByUsage(collection_components, components, usage)
        keep(c) == apply_on_models(reg, c).kind = "None"
                   \/ AppliesTo(reg, c, model_name)
    IN  SelectSeq(candidates, keep)

\* ------------------------------------ AbstractComponent._build_component
\* parents = cls._inherit, a string made a list and None made the empty list
InheritParents(cls) ==
    LET inherit == FirstAssigned(<<cls>>, "inherit")
    IN  IF inherit.kind = "basestring" THEN <<inherit.v[1]>>
        ELSE IF inherit.kind = "None" THEN <<>>
        ELSE inherit.v

\* AlreadyExists never raising
AlreadyExistsIgnored(reg, cls) == FALSE

\* if cls._name in registry: raise TypeError('Component ... already exists')
AlreadyExists(reg, cls) == Has(reg, FirstAssigned(<<cls>>, "name"))

\* name = cls._name or (len(parents) == 1 and parents[0]); None stands for
\* the false value that makes the code raise 'must have a _name'
ComponentName(cls) ==
    LET parents == InheritParents(cls)
        name == FirstAssigned(<<cls>>, "name")
    IN  IF name # None THEN name
        ELSE IF Len(parents) = 1 THEN parents[1]
        ELSE None

\* AllParents without the implicit 'base'
AllParentsAsWritten(cls) == InheritParents(cls)

\* all components except 'base' implicitly inherit from 'base'
AllParents(cls) ==
    IF ComponentName(cls) # "base"
    THEN InheritParents(cls) \o <<"base">>
    ELSE InheritParents(cls)

RECURSIVE AddAll(_, _)
AddAll(bases, more) ==
    IF more = <<>> THEN bases
    ELSE AddAll(LastOrderedSetAdd(bases, Head(more)), Tail(more))

\* One turn of "for parent in parents" for a registered parent: the bases
\* gained, given the parent's class as the registry holds it.
\* AddParent forgetting the bases the extended class already has
AddParentAnew(reg, name, parent, bases) ==
    IF parent = name
    THEN bases
    ELSE LastOrderedSetAdd(bases, parent)

AddParent(reg, name, parent, bases) ==
    IF parent = name
    THEN AddAll(bases, reg.cls[parent].bases)
    ELSE LastOrderedSetAdd(bases, parent)

\* AddChild with the children kept in a LastOrderedSet
AddChildLast(reg, name, parent) ==
    IF parent = name
    THEN reg
    ELSE [reg EXCEPT !.cls[parent].children = LastOrderedSetAdd(@, name)]

\* ... and the children recorded: parent_class._inherit_children.add(name)
AddChild(reg, name, parent) ==
    IF parent = name
    THEN reg
    ELSE [reg EXCEPT !.cls[parent].children = OrderedSetAdd(@, name)]

\* The loop "for parent in parents", from the i-th parent on.  It stops at
\* the first parent that is not in the registry (raised), keeping what the
\* earlier turns did to the classes of the registry.
RECURSIVE InheritFrom(_, _, _, _, _)
InheritFrom(reg, name, parents, i, bases) ==
    IF i > Len(parents)
    THEN [raised |-> FALSE, reg |-> reg, bases |-> bases]
    ELSE IF ~Has(reg, parents[i])
    THEN [raised |-> TRUE, reg |-> reg, bases |-> bases]
    ELSE InheritFrom(AddChild(reg, name, parents[i]), name, parents, i + 1,
                     AddParent(reg, name, parents[i], bases))

\* ComponentClass.__bases__ = tuple(bases): Python computes the mro of the
\* class and of its subclasses again and refuses the bases when one of them
\* has no consistent order.
BasesAccepted(reg, name, bases) ==
    IF Has(reg, name)
    THEN LET cls == [reg.cls EXCEPT ![name].bases = bases]
         IN  \A c \in Range(reg.order) : Consistent(ComputeMro(cls, c))
    ELSE Consistent(MroOfBases(reg.cls, name, bases))

\* Rebased leaving the subclasses with the mro they had
RebasedOwnOnly(cls, name, bases) ==
    LET based == [cls EXCEPT ![name].bases = bases]
    IN  [based EXCEPT ![name].mro = ComputeMro(based, name)]

\* the classes after the accepted assignment of __bases__ to a registered
\* class: the mro of the class and of its subclasses is the new one
Rebased(cls, name, bases) ==
    LET based == [cls EXCEPT ![name].bases = bases]
    IN  [c \in DOMAIN cls |-> [based[c] EXCEPT !.mro = ComputeMro(based, c)]]

\* registry[name] = ComponentClass, the class being the registered one
\* (extension in place) or the one just created
Register(reg, name, bases) ==
    IF Has(reg, name)
    THEN SetItem([reg EXCEPT !.cls = Rebased(reg.cls, name, bases)], name,
                 Rebased(reg.cls, name, bases)[name])
    ELSE SetItem(reg, name,
                 [bases |-> bases, children |-> <<>>,
                  mro |-> MroOfBases(reg.cls, name, bases)])

Raised(error, reg, name) ==
    [outcome |-> error, registry |-> reg, name |-> name]

\* cls._build_component(registry): the outcome, the registry afterwards and
\* the name the class was built under
build_component(reg, cls) ==
    LET name == ComponentName(cls)
        parents == AllParents(cls)
        loop == InheritFrom(reg, name, parents, 1, <<cls>>)
    IN  IF AlreadyExists(reg, cls)
        THEN Raised("DuplicateComponentError", reg, FirstAssigned(<<cls>>, "name"))
        ELSE IF name = None
        THEN Raised("MissingNameError", reg, None)
        ELSE IF name \in Range(parents) /\ ~Has(reg, name)
        THEN Raised("UnknownParentError", reg, name)
        ELSE IF loop.raised
        THEN Raised("UnknownParentError", loop.reg, name)
        ELSE IF ~BasesAccepted(loop.reg, name, loop.bases)
        THEN Raised("InconsistentMroError", loop.reg, name)
        ELSE [outcome |-> "ok",
              registry |-> Register(loop.reg, name, loop.bases),
              name |-> name]

\* the declarations composed into a registry
Built(reg) ==
    {d \in DeclIds : \E c \in Range(reg.order) : d \in Range(reg.cls[c].bases)}

\* ------------------------------------------------------------ WorkContext
\* The attributes of a WorkContext object are kept as one mapping, written
\* by setattr and read by getattr; a collection is known by its _name and
\* env[model_name] by the model's name.  _propagate_kwargs is only ever read
\* for the names it holds, so it is kept as a bag.
SetAttr(self, attr_name, value) ==
    [self EXCEPT !.attrs = (attr_name :> value) @@ @]

PropagateAppend(self, attr_name) ==
    [self EXCEPT !.propagate_kwargs = @ (+) SetToBag({attr_name})]

\* for attr_name, value in kwargs.iteritems(): setattr, then append
RECURSIVE SetKwargs(_, _, _)
SetKwargs(self, kwargs, names) ==
    IF names = {} THEN self
    ELSE LET attr_name == CHOOSE n \in names : TRUE
         IN  SetKwargs(PropagateAppend(SetAttr(self, attr_name, kwargs[attr_name]),
                                       attr_name),
                       kwargs, names \ {attr_name})

\* if components_registry is not None: ... else: all_components
RegistryOf(components_registry) ==
    IF components_registry # None THEN components_registry ELSE "all_components"

\* WorkContext.__init__(collection, model_name, components_registry, **kwargs)
WorkContext(collection, model_name, components_registry, kwargs) ==
    SetKwargs([attrs |-> [collection |-> collection,
                          model_name |-> model_name,
                          model |-> model_name]
                         @@ ("_components_registry" :> RegistryOf(components_registry)),
               propagate_kwargs |-> SetToBag({"_components_registry"})],
              kwargs, DOMAIN kwargs)

\* the attributes given as extra keywords
Extra(self) ==
    [attr_name \in DOMAIN self.attrs
                     \ {"collection", "model_name", "model", "_components_registry"}
        |-> self.attrs[attr_name]]

\* PropagatedKwargs without the registry
PropagatedKwargsExtraOnly(self) == Extra(self)

\* kwargs = {attr_name: getattr(self, attr_name) for ... in _propagate_kwargs}
PropagatedKwargs(self) ==
    [attr_name \in BagToSet(self.propagate_kwargs) |-> self.attrs[attr_name]]

\* WorkContext.work_on(model_name): the registry travels with the other
\* propagated attributes, as the keyword '_components_registry'
work_on(self, model_name) ==
    WorkContext(self.attrs.collection, model_name, None, PropagatedKwargs(self))

\* -------------------------------------------- AbstractComponent resolution
\* the registry a work context resolves against
RegistryAt(regs, work) == regs[work.attrs["_components_registry"]]

Instance(class, work) == [outcome |-> "ok", class |-> class, work |-> work]

Error(error, work) == [outcome |-> error, class |-> None, work |-> work]

\* model_name or self.work.model_name
WorkModel(work, model_name) ==
    IF model_name # None THEN model_name ELSE work.attrs.model_name

\* the work context the returned component is initialized with
WorkFor(work, model_name) ==
    IF WorkModel(work, model_name) = work.attrs.model_name
    THEN work
    ELSE work_on(work, model_name)

\* OneOf with the first of several matches winning
OneOfFirstWins(component_classes, work, model_name) ==
    IF component_classes = <<>> THEN Error("NoComponentError", work)
    ELSE Instance(component_classes[1], WorkFor(work, model_name))

\* the outcome of component() given what the lookup returned
OneOf(component_classes, work, model_name) ==
    IF component_classes = <<>> THEN Error("NoComponentError", work)
    ELSE IF Len(component_classes) > 1 THEN Error("SeveralComponentError", work)
    ELSE Instance(component_classes[1], WorkFor(work, model_name))

\* AbstractComponent.component(usage, model_name), self.work being work
component(regs, work, usage, model_name) ==
    OneOf(lookup(RegistryAt(regs, work), work.attrs.collection, usage,
                 WorkModel(work, model_name)),
          work, model_name)

\* component_class.apply_on_models and work_model not in ...
NotForModel(reg, name, work_model) ==
    /\ Len(apply_on_models(reg, name).v) > 0
    /\ ~AppliesTo(reg, name, work_model)

\* AbstractComponent.component_by_name(name, model_name)
component_by_name(regs, work, name, model_name) ==
    IF ~Has(RegistryAt(regs, work), name) THEN Error("NoComponentError", work)
    ELSE IF NotForModel(RegistryAt(regs, work), name, WorkModel(work, model_name))
    THEN Error("NoComponentError", work)
    ELSE Instance(name, WorkFor(work, model_name))

\* ------------------------------------------------------------- the calls
Init ==
    /\ registries = [r \in RegIds |-> EmptyRegistry]
    /\ last = [op |-> "none"]
    /\ works = <<>>
    /\ loading = [active |-> FALSE, todo |-> <<>>, rebuilds |-> 0]
    /\ old = EmptyRegistry
    /\ seen = <<>>

Budget(r) ==
    Cardinality(Built(registries[r])) <
        (IF r = "all_components" THEN MaxBuilds ELSE MaxTestBuilds)

\* component_class._build_component(components_registry), each declared
\* class once per registry
Build(r, cls) ==
    /\ cls \notin Built(registries[r])
    /\ Budget(r)
    /\ \E built \in {build_component(registries[r], cls)} :
           /\ registries' = [registries EXCEPT ![r] = built.registry]
           /\ last' = [op |-> "build", registry |-> r, cls |-> cls,
                       outcome |-> built.outcome, name |-> built.name]
    /\ UNCHANGED <<works, loading, old, seen>>

\* registry.lookup(collection_name, usage=usage, model_name=model_name)
Lookup(r, collection_name, usage, model_name) ==
    /\ last' = [op |-> "lookup", registry |-> r,
                collection_name |-> collection_name, usage |-> usage,
                model_name |-> model_name,
                result |-> lookup(registries[r], collection_name, usage, model_name)]
    /\ UNCHANGED <<registries, works, loading, old, seen>>


\* the extra keywords the callers give a work context
Kwargs ==
    {<<>>, [hello |-> "world"], [hello |-> "world", rpc_client |-> "client"]}

\* the work contexts the resolutions of the tests start from
TestWorks ==
    {WorkContext("foo.bar.collection", "res.users", "test_registry", <<>>),
     WorkContext("foo.bar.collection", "res.partner", "test_registry",
                 [hello |-> "world"]),
     WorkContext("magento.backend", "res.users", "test_registry", <<>>)}

\* self.component(usage=usage, model_name=model_name) on a component whose
\* work context is work
Component(work, usage, model_name) ==
    /\ last' = [op |-> "component", work |-> work, usage |-> usage,
                model_name |-> model_name,
                result |-> component(registries, work, usage, model_name)]
    /\ UNCHANGED <<registries, works, loading, old, seen>>

\* self.component_by_name(name, model_name=model_name) on a component whose
\* work context is work
ComponentByName(work, name, model_name) ==
    /\ last' = [op |-> "component_by_name", work |-> work, name |-> name,
                model_name |-> model_name,
                result |-> component_by_name(registries, work, name, model_name)]
    /\ UNCHANGED <<registries, works, loading, old, seen>>

\* work = WorkContext(collection, model_name, components_registry, **kwargs)
NewWork(collection, model_name, components_registry, kwargs) ==
    /\ works = <<>>
    /\ works' = <<WorkContext(collection, model_name, components_registry, kwargs)>>
    /\ last' = [op |-> "WorkContext", receiver |-> 0, model_name |-> model_name]
    /\ UNCHANGED <<registries, loading, old, seen>>

\* works[i].work_on(model_name)
WorkOn(i, model_name) ==
    /\ i \in 1..Len(works)
    /\ Len(works) < MaxWorks
    /\ works' = Append(works, work_on(works[i], model_name))
    /\ last' = [op |-> "work_on", receiver |-> i, model_name |-> model_name]
    /\ UNCHANGED <<registries, loading, old, seen>>

\* The classes of the addons in the order the loader builds them, for some
\* sets of installed addons.
LoadOrders ==
    {<<"Base", "A1", "B1">>,
     <<"Base", "A1", "A2", "Vocalizer">>,
     <<"Base", "Vocalizer", "A1", "B1", "B3">>}

\* The rebuild of the Odoo registry starts: all_components is cleared.
StartRebuild(order) ==
    /\ ~loading.active
    /\ loading.rebuilds < MaxRebuilds
    /\ loading' = [active |-> TRUE, todo |-> order, rebuilds |-> loading.rebuilds + 1]
    /\ old' = registries["all_components"]
    /\ registries' = [registries EXCEPT !["all_components"] = EmptyRegistry]
    /\ seen' = <<>>
    /\ last' = [op |-> "rebuild"]
    /\ UNCHANGED works

\* The loader builds the next class into all_components; an error ends the
\* rebuild.
LoadComponent ==
    /\ loading.active
    /\ loading.todo # <<>>
    /\ \E built \in {build_component(registries["all_components"],
                                        Head(loading.todo))} :
           /\ registries' = [registries EXCEPT !["all_components"] = built.registry]
           /\ last' = [op |-> "build", registry |-> "all_components",
                       cls |-> Head(loading.todo),
                       outcome |-> built.outcome, name |-> built.name]
           /\ loading' = IF built.outcome = "ok"
                         THEN [loading EXCEPT !.todo = Tail(@)]
                         ELSE [loading EXCEPT !.todo = <<>>, !.active = FALSE]
    /\ UNCHANGED <<works, old, seen>>

\* The loader has built every class.
FinishRebuild ==
    /\ loading.active
    /\ loading.todo = <<>>
    /\ loading' = [loading EXCEPT !.active = FALSE]
    /\ last' = [op |-> "rebuilt"]
    /\ UNCHANGED <<registries, works, old, seen>>

\* Another thread looks components up in all_components.
Read(collection_name, usage, model_name) ==
    /\ last' = [op |-> "lookup", registry |-> "all_components",
                collection_name |-> collection_name, usage |-> usage,
                model_name |-> model_name,
                result |-> lookup(registries["all_components"], collection_name,
                                  usage, model_name)]
    /\ seen' = IF loading.active THEN <<registries["all_components"]>> ELSE seen
    /\ UNCHANGED <<registries, works, loading, old>>

\* ------------------------------------------------------- specifications
\* the classes of the addons built in any order
NextBuild == \E cls \in DeclIds : Build("all_components", cls)

SpecBuild == Init /\ [][NextBuild]_vars

\* a registry of the tests built and looked up
NextLookup ==
    \/ \E cls \in DeclIds : Build("test_registry", cls)
    \/ \E collection_name \in Collections,
          usage \in Usages \cup {None}, model_name \in Models \cup {None} :
            Lookup("test_registry", collection_name, usage, model_name)

SpecLookup == Init /\ [][NextLookup]_vars

\* a registry of the tests built and resolved by usage
NextComponent ==
    \/ \E cls \in DeclIds : Build("test_registry", cls)
    \/ \E work \in TestWorks, usage \in Usages \cup {None},
          model_name \in Models \cup {None} :
            Component(work, usage, model_name)

SpecComponent == Init /\ [][NextComponent]_vars

\* a registry of the tests built and resolved by name
NextByName ==
    \/ \E cls \in DeclIds : Build("test_registry", cls)
    \/ \E work \in TestWorks, name \in {"base", "a", "b", "zz"},
          model_name \in Models \cup {None} :
            ComponentByName(work, name, model_name)

SpecByName == Init /\ [][NextByName]_vars

\* work contexts made and derived
NextWork ==
    \/ \E collection \in Collections, model_name \in Models,
          components_registry \in RegIds \cup {None}, kwargs \in Kwargs :
            NewWork(collection, model_name, components_registry, kwargs)
    \/ \E i \in 1..MaxWorks, model_name \in Models : WorkOn(i, model_name)

SpecWork == Init /\ [][NextWork]_vars

\* all_components rebuilt by the loader while other threads read it
NextRebuild ==
    \/ \E order \in LoadOrders : StartRebuild(order)
    \/ LoadComponent
    \/ FinishRebuild
    \/ \E collection_name \in Collections, usage \in {None, "speak"},
          model_name \in {"res.users"} :
            Read(collection_name, usage, model_name)

SpecRebuild == Init /\ [][NextRebuild]_vars

\* ---------------------------------------------------------------- claims
Registered(reg) == Range(reg.order)

\* the registered classes a lookup is meant to return, usage None meaning any
Eligible(reg, collection_name, usage, model_name) ==
    {c \in Registered(reg) :
        /\ ~GetAttr(reg, c, "abstract")
        /\ GetAttr(reg, c, "collection") \in {collection_name, None}
        /\ usage # None => GetAttr(reg, c, "usage") = usage
        /\ \/ GetAttr(reg, c, "apply_on").kind = "None"
           \/ model_name \in Range(apply_on_models(reg, c).v)}

\* some class of the collection that is not abstract carries the usage
Carried(reg, collection_name, usage) ==
    \E c \in Registered(reg) :
        /\ ~GetAttr(reg, c, "abstract")
        /\ GetAttr(reg, c, "collection") \in {collection_name, None}
        /\ GetAttr(reg, c, "usage") = usage

\* C1: component() raises NoComponentError when lookup, on the collection of
\* the work context, the usage and the model asked for (else the model of the
\* work context), returns nothing; raises SeveralComponentError when lookup
\* returns more than one class; and otherwise returns an instance of the one
\* class lookup returned.
C1_ResolveOneFollowsLookup ==
    last.op = "component" =>
        LET found == lookup(RegistryAt(registries, last.work),
                            last.work.attrs.collection, last.usage,
                            WorkModel(last.work, last.model_name))
        IN  /\ last.result.outcome \in
                   {"NoComponentError", "SeveralComponentError", "ok"}
            /\ last.result.outcome = "NoComponentError" <=> Len(found) = 0
            /\ last.result.outcome = "SeveralComponentError" <=> Len(found) > 1
            /\ last.result.outcome = "ok" <=>
                   (Len(found) = 1 /\ last.result.class = found[1])

\* two classes match and the resolution is refused, though one came first
C1_Witness ==
    /\ last.op = "component"
    /\ last.result.outcome = "SeveralComponentError"
    /\ Cardinality(Eligible(RegistryAt(registries, last.work),
                            last.work.attrs.collection, last.usage,
                            WorkModel(last.work, last.model_name))) = 2

\* C2 as stated: a lookup for a usage that no class of the collection carries
\* returns every class of the collection that passes the model filter.
C2_UnknownUsageIgnored ==
    (/\ last.op = "lookup"
     /\ last.usage # None
     /\ ~Carried(registries[last.registry], last.collection_name, last.usage))
    => Range(last.result) = Eligible(registries[last.registry],
                                     last.collection_name, None, last.model_name)

\* C2 amended: a lookup for a usage that no class of the collection carries
\* returns the empty list, whatever classes the collection has.
C2_UnknownUsageFindsNothing ==
    (/\ last.op = "lookup"
     /\ last.usage # None
     /\ ~Carried(registries[last.registry], last.collection_name, last.usage))
    => last.result = <<>>

\* an unknown usage asked of a collection that has classes for the model
C2_Witness ==
    /\ last.op = "lookup"
    /\ last.usage # None
    /\ ~Carried(registries[last.registry], last.collection_name, last.usage)
    /\ Eligible(registries[last.registry], last.collection_name, None,
                last.model_name) # {}
    /\ last.result = <<>>

\* C3: when the usage is None or carried by a class of the collection, lookup
\* returns, each once, exactly the classes that are not abstract, whose
\* collection is None or the one asked for, whose usage is the one asked for
\* if any, and whose apply_on_models is None or holds the model.
C3_LookupReturnsEligible ==
    (/\ last.op = "lookup"
     /\ \/ last.usage = None
        \/ Carried(registries[last.registry], last.collection_name, last.usage))
    => /\ Range(last.result) = Eligible(registries[last.registry],
                                        last.collection_name, last.usage,
                                        last.model_name)
       /\ Len(last.result) = Cardinality(Range(last.result))

\* a class without collection and a class of the collection returned together
C3_Witness ==
    /\ last.op = "lookup"
    /\ \E c \in Range(last.result) :
           GetAttr(registries[last.registry], c, "collection") = None
    /\ \E c \in Range(last.result) :
           GetAttr(registries[last.registry], c, "collection") = last.collection_name

\* the name a class body assigns to _name, None when it assigns none
OwnName(cls) == FirstAssigned(<<cls>>, "name")

\* the classes a registered class resolves its behaviour through, itself aside
Ancestors(reg, name) == (Range(reg.cls[name].mro) \cap Registered(reg)) \ {name}

LookupInputs ==
    Collections \X (Usages \cup {None}) \X (Models \cup {None})

\* C4 as stated: a class that assigns _name X and lists X in _inherit, built
\* when X is registered, raises no duplicate error and becomes the first of
\* X's bases.
C4_NamedExtensionAccepted ==
    (/\ last.op = "build"
     /\ OwnName(last.cls) # None
     /\ OwnName(last.cls) \in Range(InheritParents(last.cls))
     /\ Has(registries[last.registry], OwnName(last.cls)))
    => /\ last.outcome # "DuplicateComponentError"
       /\ Head(registries[last.registry].cls[OwnName(last.cls)].bases) = last.cls

\* C5: a successful build of class D under a name X that is already
\* registered leaves X with D first and then the bases X had, all of them and
\* in the order they had; the mro of X grows by D right after X.
C5_ExtensionStacksOnTop ==
    [][(/\ last'.op = "build"
        /\ last'.outcome = "ok"
        /\ Has(registries[last'.registry], last'.name))
       => LET before == registries[last'.registry].cls[last'.name]
              after == registries'[last'.registry].cls[last'.name]
          IN  /\ after.bases = <<last'.cls>> \o before.bases
              /\ after.mro = <<last'.name, last'.cls>> \o Tail(before.mro)]_vars

\* a component extended in place twice
C5_Witness ==
    /\ last.op = "build"
    /\ last.outcome = "ok"
    /\ last.cls = "A3"
    /\ registries["all_components"].cls["a"].bases = <<"A3", "A2", "A1", "base">>

\* C6: building a class whose _name is registered and is not among its
\* _inherit raises the duplicate error and leaves the registry, and so the
\* class registered under that name, as they were.
C6_DuplicateNameRefused ==
    [][(/\ last'.op = "build"
        /\ Has(registries[last'.registry], OwnName(last'.cls))
        /\ OwnName(last'.cls) \notin Range(InheritParents(last'.cls)))
       => /\ last'.outcome = "DuplicateComponentError"
          /\ registries' = registries]_vars

\* a second class named 'a' refused
C6_Witness ==
    /\ last.op = "build"
    /\ last.outcome = "DuplicateComponentError"
    /\ OwnName(last.cls) = "a"
    /\ OwnName(last.cls) \notin Range(InheritParents(last.cls))
    /\ Has(registries[last.registry], "a")

\* C8: a successful build that extends B in place leaves every class A that B
\* derives from as it was (bases, mro, children, collection, usage, apply_on,
\* abstract) and changes no lookup result with respect to A.
C8_ExtensionLeavesParents ==
    [][(/\ last'.op = "build"
        /\ last'.outcome = "ok"
        /\ Has(registries[last'.registry], last'.name))
       => LET before == registries[last'.registry]
              after == registries'[last'.registry]
          IN  \A A \in Ancestors(before, last'.name) :
                /\ after.cls[A] = before.cls[A]
                /\ \A attr \in {"collection", "usage", "apply_on", "abstract"} :
                       GetAttr(after, A, attr) = GetAttr(before, A, attr)
                /\ \A in \in LookupInputs :
                       A \in Range(lookup(after, in[1], in[2], in[3]))
                       <=> A \in Range(lookup(before, in[1], in[2], in[3]))]_vars

\* 'b', derived from 'a', extended in place
C8_Witness ==
    /\ last.op = "build"
    /\ last.outcome = "ok"
    /\ last.cls = "B3"
    /\ registries["all_components"].cls["b"].bases = <<"B3", "B1", "a", "base">>
    /\ registries["all_components"].cls["a"].bases = <<"A1", "base">>

\* C7 as stated: once the rebuild of all_components has ended, what a reader
\* saw of all_components while it ran is the registry of before the rebuild
\* or the registry the rebuild ended with.
C7_ReadersSeeOldOrNew ==
    (/\ ~loading.active
     /\ loading.rebuilds > 0
     /\ seen # <<>>)
    => seen[1] \in {old, registries["all_components"]}

C10_ByNameChecksModel ==
    last.op = "component_by_name" =>
        LET reg == RegistryAt(registries, last.work)
            work_model == WorkModel(last.work, last.model_name)
            refused == \/ ~Has(reg, last.name)
                       \/ /\ apply_on_models(reg, last.name).kind # "None"
                          /\ work_model \notin Range(apply_on_models(reg, last.name).v)
        IN  IF refused
            THEN last.result.outcome = "NoComponentError"
            ELSE last.result.outcome = "ok" /\ last.result.class = last.name

\* the place of x in the sequence s
Index(s, x) == CHOOSE i \in 1..Len(s) : s[i] = x

\* r lists some elements of s, each once, in the order s has them
InOrderOf(r, s) ==
    /\ Range(r) \subseteq Range(s)
    /\ \A i, j \in 1..Len(r) : i < j => Index(s, r[i]) < Index(s, r[j])

\* C11: every build leaves the names of the registry in the order they were
\* first composed in: a build under a new name puts the name last, a build
\* that extends a name in place or fails moves no name; and every lookup
\* returns classes in the order of the registry (a failed build leaves the
\* order and every mro, which is all a lookup reads, as they were).
C11_OrderOfFirstComposition ==
    [][last'.op = "build"
       => LET before == registries[last'.registry]
              after == registries'[last'.registry]
          IN  /\ after.order =
                     IF last'.outcome = "ok" /\ ~Has(before, last'.name)
                     THEN Append(before.order, last'.name)
                     ELSE before.order
              /\ IF last'.outcome = "ok"
                 THEN \A in \in LookupInputs :
                        InOrderOf(lookup(after, in[1], in[2], in[3]), after.order)
                 ELSE \A c \in Registered(before) :
                        after.cls[c].mro = before.cls[c].mro]_vars

\* 'a' extended in place after 'b' was composed, and still looked up first
C11_Witness ==
    /\ last.op = "build"
    /\ last.outcome = "ok"
    /\ last.cls = "A2"
    /\ registries["all_components"].order = <<"base", "a", "b">>
    /\ lookup(registries["all_components"], "foo.bar.collection", None,
              "res.partner") = <<"a", "b">>

\* how many times x stands in the sequence s
Count(s, x) == Cardinality({i \in 1..Len(s) : s[i] = x})

\* C12: the bases of every registered class other than 'base' begin with a
\* declared class, the one just built when the class is the one the last
\* successful build composed, and end with the class 'base', which stands in
\* them once and is reached once when attributes are resolved; the bases of
\* 'base' never hold 'base'.
C12_BaseLastAndOnce ==
    /\ \A r \in RegIds : \A c \in Registered(registries[r]) :
           LET bases == registries[r].cls[c].bases
           IN  IF c = "base"
               THEN "base" \notin Range(bases)
               ELSE /\ Head(bases) \in DeclIds
                    /\ bases[Len(bases)] = "base"
                    /\ Count(bases, "base") = 1
                    /\ Count(registries[r].cls[c].mro, "base") = 1
    /\ (last.op = "build" /\ last.outcome = "ok")
           => Head(registries[last.registry].cls[last.name].bases) = last.cls

\* a class that lists 'base' first and 'a' twice, composed, and 'base'
\* extended in place
C12_Witness ==
    /\ last.op = "build"
    /\ last.outcome = "ok"
    /\ Has(registries["all_components"], "c")
    /\ registries["all_components"].cls["c"].bases = <<"Twice", "a", "base">>
    /\ registries["all_components"].cls["base"].bases = <<"Base2", "Base">>

\* the declared classes among the bases of a registered class
OwnDeclarations(reg, name) == Range(reg.cls[name].bases) \cap DeclIds

\* C13: a successful build of class D that extends A in place leaves every
\* class B that resolves its behaviour through A with the bases it had, and
\* with D in its mro: behind B's own declared classes and behind A, before
\* every declared class A was composed of until then.
C13_DerivedSeesExtension ==
    [][(/\ last'.op = "build"
        /\ last'.outcome = "ok"
        /\ Has(registries[last'.registry], last'.name))
       => LET before == registries[last'.registry]
              after == registries'[last'.registry]
              A == last'.name
              D == last'.cls
          IN  \A B \in Registered(before) :
                A \in Ancestors(before, B)
                => LET mro == after.cls[B].mro
                   IN  /\ after.cls[B].bases = before.cls[B].bases
                       /\ Count(mro, D) = 1
                       /\ Index(mro, A) < Index(mro, D)
                       /\ \A own \in OwnDeclarations(before, B) :
                              Index(mro, own) < Index(mro, D)
                       /\ \A earlier \in OwnDeclarations(before, A) :
                              Index(mro, D) < Index(mro, earlier)]_vars

\* 'a' extended in place after 'b', derived from 'a', was composed
C13_Witness ==
    /\ last.op = "build"
    /\ last.outcome = "ok"
    /\ last.cls = "A2"
    /\ Has(registries["all_components"], "b")
    /\ registries["all_components"].cls["b"].bases = <<"B1", "a", "base">>
    /\ registries["all_components"].cls["b"].mro =
           <<"b", "B1", "a", "A2", "A1", "base", "Base">>

\* C14 as stated: a build that raises for a missing name, a duplicate name,
\* an unknown parent or an unknown class to extend leaves the registry as it
\* was (names, and bases, mro and children of every class), and in every
\* reachable state the children of every registered class are registered.
C14_FailedBuildChangesNothing ==
    /\ [][(/\ last'.op = "build"
            /\ last'.outcome \in {"MissingNameError", "DuplicateComponentError",
                                   "UnknownParentError"})
           => registries' = registries]_vars
    /\ [](\A r \in RegIds : \A c \in Registered(registries[r]) :
              Range(registries[r].cls[c].children) \subseteq Registered(registries[r]))

====
